---- MODULE Spec2Model ----
(***************************************************************************)
(* Model of docker/sentence-transformers/app.py: a FastAPI service that    *)
(* loads one sentence-transformers model at startup and serves embeddings. *)
(*                                                                         *)
(* Conventions                                                             *)
(*  - floats are abstracted to integers: the value of an embedding         *)
(*    component is a code of (model, sentence, column);                    *)
(*  - an f-string is the sequence of its fragments, e.g.                   *)
(*    <<"Failed to generate embeddings: ", str(e)>>;                       *)
(*  - the embedding dimensionalities of the real models (384, 768) are     *)
(*    scaled down to DimUnit and 2 * DimUnit.                              *)
(***************************************************************************)
EXTENDS Integers, Sequences, FiniteSets, TLC

VARIABLES
    env,          \* value of the MODEL_NAME environment variable
    model,        \* the module-level global `model`
    phase,        \* where the hosting process is in its life
    lifelog,      \* log lines emitted by lifespan()
    last,         \* the request handled last, with what the handler met
    resp,         \* the HTTP response of the request handled last
    reqlog,       \* log lines emitted by the handler of that request
    encodeCalls,  \* number of model.encode calls made so far
    handled,      \* number of requests handled so far
    load,         \* how SentenceTransformer(model_name) ended, once called
    errors,       \* the error statuses answered so far
    tasks,        \* the requests sent to the server, each with where its handler is
    running       \* the task whose handler the event loop is running, or 0

vars == <<env, model, phase, lifelog, last, resp, reqlog, encodeCalls, handled,
          load, errors, tasks, running>>

\* the state of the event loop
loopvars == <<tasks, running>>

----------------------------------------------------------------------------
(* Bounds of the exploration *)

\* number of requests one run of the process handles
MaxRequests == 3
\* sentence lists up to this length are enumerated over the whole alphabet
MaxShort == 2
\* embedding dimensionality of the smaller model (stands for 384)
DimUnit == 2
\* number of requests sent to the event loop of one process
MaxTasks == 3

(* Program constants *)

\* the batch-size cap of generate_embeddings
MaxSentences == 100

----------------------------------------------------------------------------
(* Values *)

\* Python's None as the value of the global `model`
None == [loaded |-> FALSE]

\* os.getenv finds no MODEL_NAME
Unset == "<unset>"

\* the request's optional `model` field left at its default
NoModelField == "<None>"

DefaultModelName == "all-MiniLM-L6-v2"

OtherModelName == "all-mpnet-base-v2"

UnknownModelName == "no-such-model"

\* models SentenceTransformer(name) can find
KnownModels == {DefaultModelName, OtherModelName}

EnvValues == {Unset, OtherModelName, UnknownModelName}

\* os.getenv("MODEL_NAME", "all-MiniLM-L6-v2")
ModelName(e) == IF e = Unset THEN DefaultModelName ELSE e

\* what a loaded SentenceTransformer reports about itself
Handle(name) ==
    [loaded |-> TRUE,
     name |-> name,
     dim |-> IF name = DefaultModelName THEN DimUnit ELSE 2 * DimUnit,
     max_seq_length |-> IF name = DefaultModelName THEN 256 ELSE 384,
     device |-> "cpu"]

Alphabet == <<"hello world", "">>

SentenceCode(s) == CHOOSE k \in 1..Len(Alphabet) : Alphabet[k] = s

\* a list of n sentences running through the alphabet from offset k
Cycle(n, k) == [i \in 1..n |-> Alphabet[((i + k) % Len(Alphabet)) + 1]]

RECURSIVE ListsOfLen(_)
ListsOfLen(n) ==
    IF n = 0 THEN {<<>>}
    ELSE {Append(l, Alphabet[k]) : l \in ListsOfLen(n - 1), k \in 1..Len(Alphabet)}

ShortLists == UNION {ListsOfLen(n) : n \in 0..MaxShort}

LongLists ==
    {Cycle(MaxSentences - 1, 0), Cycle(MaxSentences, 0), Cycle(MaxSentences, 1),
     Cycle(MaxSentences + 1, 0)}

\* request bodies that pass the EmbeddingRequest schema
Requests ==
    [sentences : ShortLists \cup LongLists,
     model : {NoModelField, OtherModelName}]

\* what the model call meets: nothing, or an exception raised by
\* model.encode, or one raised while converting its result
NoFault == [at |-> "none", msg |-> ""]

Faults ==
    {NoFault,
     [at |-> "encode", msg |-> "CUDA out of memory"],
     [at |-> "tolist", msg |-> "Unable to allocate array"]}

----------------------------------------------------------------------------
(* Responses and log lines *)

NoBody == [none |-> TRUE]

\* a handler returns `body`: FastAPI answers 200 with it
Return(body) == [status |-> 200, detail |-> <<>>, body |-> body]

\* raise HTTPException(status_code, detail)
HTTPException(status, detail) == [status |-> status, detail |-> detail, body |-> NoBody]

LogLine(level, parts) == [level |-> level, parts |-> parts]

----------------------------------------------------------------------------
(* The sentence-transformers library, as the service uses it *)

\* SentenceTransformer(name): the handle, or an exception.  An unknown name
\* always fails; a known one can fail too (no network, no disk, no memory).
LoadOutcomes(name) ==
    {[ok |-> FALSE, handle |-> None, msg |-> "load error"]}
    \cup (IF name \in KnownModels
          THEN {[ok |-> TRUE, handle |-> Handle(name), msg |-> ""]}
          ELSE {})

\* component j of the embedding the model h gives the sentence s
Component(h, s, j) ==
    (IF h.name = DefaultModelName THEN 0 ELSE 1000) + 10 * SentenceCode(s) + j

\* model.encode(sentences, convert_to_numpy=True): a 2-D array of shape
\* (len(sentences), dim), kept row-major as numpy keeps it
encode(h, sentences) ==
    LET n == Len(sentences)
        d == h.dim
    IN  [shape |-> <<n, d>>,
         data |-> [p \in 1..(n * d) |->
                      Component(h, sentences[((p - 1) \div d) + 1], ((p - 1) % d) + 1)]]

\* ndarray.tolist() of a 2-D array: the list of its rows, each a list
tolist_reversed(arr) ==
    LET n == arr.shape[1]
        d == arr.shape[2]
    IN  [i \in 1..n |-> [j \in 1..d |-> arr.data[(n - i) * d + j]]]

tolist(arr) ==
    LET n == arr.shape[1]
        d == arr.shape[2]
    IN  [i \in 1..n |-> [j \in 1..d |-> arr.data[(i - 1) * d + j]]]

\* getattr(obj, name, default)
getattr(obj, name, default) == IF name \in DOMAIN obj THEN obj[name] ELSE default

----------------------------------------------------------------------------
(* lifespan(): startup before the yield, shutdown after it *)

\* a variant that logs the load failure and goes on to the yield
lifespan_startup_swallow(m, e, outcome) ==
    LET name == ModelName(e)
        loading == LogLine("info", <<"Loading model: ", name>>)
    IN  IF outcome.ok
        THEN [model |-> outcome.handle,
              raised |-> FALSE,
              log |-> <<loading, LogLine("info", <<"Model loaded successfully: ", name>>)>>]
        ELSE [model |-> m,
              raised |-> FALSE,
              log |-> <<loading, LogLine("error", <<"Failed to load model: ", outcome.msg>>)>>]

\* lines 33-44: read MODEL_NAME, load, assign the global; on an exception log
\* it and re-raise.  `raised` tells whether the yield was reached.
lifespan_startup(m, e, outcome) ==
    LET name == ModelName(e)
        loading == LogLine("info", <<"Loading model: ", name>>)
    IN  IF outcome.ok
        THEN [model |-> outcome.handle,
              raised |-> FALSE,
              log |-> <<loading, LogLine("info", <<"Model loaded successfully: ", name>>)>>]
        ELSE [model |-> m,
              raised |-> TRUE,
              log |-> <<loading, LogLine("error", <<"Failed to load model: ", outcome.msg>>)>>]

ShutdownLine == LogLine("info", <<"Shutting down embedding service">>)

\* a variant that releases the model when the service stops
lifespan_shutdown_release(m) == [model |-> None, log |-> <<ShutdownLine>>]

\* lines 46-47: the code after the yield only logs
lifespan_shutdown(m) == [model |-> m, log |-> <<ShutdownLine>>]

----------------------------------------------------------------------------
(* The endpoint handlers.  Each yields the response and, for the embeddings *)
(* endpoint, whether model.encode was called and what was logged.          *)

NotLoaded == HTTPException(503, <<"Model not loaded">>)

Healthy == Return([status |-> "healthy", model_loaded |-> TRUE])

\* a variant with the readiness test inverted
health_check_inverted(m) == IF m # None THEN NotLoaded ELSE Healthy

\* GET /health
health_check(m) == IF m = None THEN NotLoaded ELSE Healthy

RootPayload(e) ==
    [service |-> "sentence-transformers-embedding",
     version |-> "1.0.0",
     model |-> ModelName(e),
     status |-> "running"]

\* a variant that asks for readiness as the other endpoints do
root_gated(e) == IF model = None THEN NotLoaded ELSE Return(RootPayload(e))

\* GET /
root(e) == Return(RootPayload(e))

\* GET /model/info
model_info(m, e) ==
    IF m = None THEN NotLoaded
    ELSE Return([model_name |-> ModelName(e),
                 max_seq_length |-> getattr(m, "max_seq_length", "unknown"),
                 embedding_dimension |-> m.dim,
                 device |-> IF "device" \in DOMAIN m THEN m.device ELSE "unknown"])

\* `not request.sentences`, read as `request.sentences is None`
NoSentences_isNone(sentences) == FALSE

\* line 79: `not request.sentences`
NoSentences(sentences) == Len(sentences) = 0

\* the cap tested with >=
TooManySentences_ge(sentences) == Len(sentences) >= MaxSentences

\* the cap tested one too high
TooManySentences_late(sentences) == Len(sentences) > MaxSentences + 1

\* line 82: len(request.sentences) > 100
TooManySentences(sentences) == Len(sentences) > MaxSentences

Pass == [status |-> 0, detail |-> <<>>, body |-> NoBody]

\* the two request checks made ahead of the readiness check
preconditions_validate_first(m, request) ==
    IF NoSentences(request.sentences)
    THEN HTTPException(400, <<"No sentences provided">>)
    ELSE IF TooManySentences(request.sentences)
    THEN HTTPException(400, <<"Too many sentences (max 100)">>)
    ELSE IF m = None THEN NotLoaded
    ELSE Pass

\* lines 76-83: the three checks ahead of the try block, in their order
preconditions(m, request) ==
    IF m = None THEN NotLoaded
    ELSE IF NoSentences(request.sentences)
    THEN HTTPException(400, <<"No sentences provided">>)
    ELSE IF TooManySentences(request.sentences)
    THEN HTTPException(400, <<"Too many sentences (max 100)">>)
    ELSE Pass

\* pydantic's EmbeddingResponse(embeddings=...)
EmbeddingResponse(embeddings) == [embeddings |-> embeddings]

\* an except clause that answers with what it has: nothing
inference_failed_empty(msg) ==
    [response |-> Return(EmbeddingResponse(<<>>)),
     log |-> <<LogLine("error", <<"Error generating embeddings: ", msg>>)>>]

\* lines 102-104: the except clause
inference_failed(msg) ==
    [response |-> HTTPException(500, <<"Failed to generate embeddings: ", msg>>),
     log |-> <<LogLine("error", <<"Error generating embeddings: ", msg>>)>>]

\* a variant that loads the model the request names and serves with it
serving_model_switch(m, request) ==
    IF request.model = NoModelField THEN m ELSE Handle(request.model)

\* line 89: the model called is the global, whatever request.model holds; the
\* handler has no `global model` statement and leaves the global as it is
serving_model(m, request) == m

\* POST /embeddings
generate_embeddings(m, request, fault) ==
    LET pre == preconditions(m, request)
        h == serving_model(m, request)
        generating == LogLine("info", <<"Generating embeddings for ",
                                        ToString(Len(request.sentences)), " sentences">>)
    IN  IF pre # Pass
        THEN [response |-> pre, encoded |-> 0, log |-> <<>>, model |-> m]
        ELSE IF fault.at # "none"
        THEN LET f == inference_failed(fault.msg)
             IN  [response |-> f.response, encoded |-> 1, log |-> <<generating>> \o f.log,
                  model |-> h]
        ELSE LET embeddings == encode(h, request.sentences)
                 embeddings_list == tolist(embeddings)
                 generated == LogLine("info", <<"Generated embeddings with shape: ",
                                               ToString(embeddings.shape[1]),
                                               ToString(embeddings.shape[2])>>)
             IN  [response |-> Return(EmbeddingResponse(embeddings_list)),
                  encoded |-> 1,
                  log |-> <<generating, generated>>,
                  model |-> h]

----------------------------------------------------------------------------
(* The process *)

NoCall == [op |-> "none", sentences |-> <<>>, model_field |-> NoModelField,
           fault |-> NoFault, observed |-> None]

NoResponse == Pass

TaskIds == 1..MaxTasks

\* the body of a request that has none
NoRequest == [sentences |-> <<>>, model |-> NoModelField]

\* a task slot no request has taken yet
IdleTask == [op |-> "none", request |-> NoRequest, pc |-> "idle", resp |-> NoResponse]

Init ==
    /\ env \in EnvValues
    /\ model = None
    /\ phase = "imported"
    /\ lifelog = <<>>
    /\ last = NoCall
    /\ resp = NoResponse
    /\ reqlog = <<>>
    /\ encodeCalls = 0
    /\ handled = 0
    /\ load = "not_called"
    /\ errors = {}
    /\ tasks = [t \in TaskIds |-> IdleTask]
    /\ running = 0

\* uvicorn.run(app): the server enters lifespan() and serves only if the
\* startup reaches the yield; an exception out of it ends the process
Startup ==
    /\ phase = "imported"
    /\ \E outcome \in LoadOutcomes(ModelName(env)) :
          LET r == lifespan_startup(model, env, outcome)
          IN  /\ load' = IF outcome.ok THEN "ok" ELSE "failed"
              /\ model' = r.model
              /\ lifelog' = lifelog \o r.log
              /\ phase' = IF r.raised THEN "aborted" ELSE "ready"
    /\ UNCHANGED <<env, last, resp, reqlog, encodeCalls, handled, errors, loopvars>>

\* the app served by a host that sends it no lifespan events: the handlers
\* run with the global as the module body left it
ServeWithoutLifespan ==
    /\ phase = "imported"
    /\ phase' = "unmanaged"
    /\ UNCHANGED <<env, model, lifelog, last, resp, reqlog, encodeCalls, handled,
                   load, errors, loopvars>>

Serving == phase \in {"ready", "unmanaged"}

CanHandle == Serving /\ handled < MaxRequests

\* the error statuses answered, with that of the response r added
Answered(seen, r) == IF r.status = 200 THEN seen ELSE seen \cup {r.status}

\* a request that does not reach the model call meets no fault of it
FaultsMet(m, request) ==
    IF preconditions(m, request) = Pass THEN Faults ELSE {NoFault}

HealthCheck ==
    /\ CanHandle
    /\ resp' = health_check(model)
    /\ last' = [NoCall EXCEPT !.op = "health", !.observed = model]
    /\ reqlog' = <<>>
    /\ handled' = handled + 1
    /\ errors' = Answered(errors, resp')
    /\ UNCHANGED <<env, model, phase, lifelog, encodeCalls, load, loopvars>>

Root ==
    /\ CanHandle
    /\ resp' = root(env)
    /\ last' = [NoCall EXCEPT !.op = "root"]
    /\ reqlog' = <<>>
    /\ handled' = handled + 1
    /\ errors' = Answered(errors, resp')
    /\ UNCHANGED <<env, model, phase, lifelog, encodeCalls, load, loopvars>>

ModelInfo ==
    /\ CanHandle
    /\ resp' = model_info(model, env)
    /\ last' = [NoCall EXCEPT !.op = "model_info", !.observed = model]
    /\ reqlog' = <<>>
    /\ handled' = handled + 1
    /\ errors' = Answered(errors, resp')
    /\ UNCHANGED <<env, model, phase, lifelog, encodeCalls, load, loopvars>>

GenerateEmbeddings ==
    /\ CanHandle
    /\ \E request \in Requests :
       \E fault \in FaultsMet(model, request) :
          LET r == generate_embeddings(model, request, fault)
          IN  /\ resp' = r.response
              /\ reqlog' = r.log
              /\ encodeCalls' = encodeCalls + r.encoded
              /\ last' = [op |-> "embeddings",
                          sentences |-> request.sentences,
                          model_field |-> request.model,
                          fault |-> fault,
                          observed |-> model]
              /\ model' = r.model
    /\ handled' = handled + 1
    /\ errors' = Answered(errors, resp')
    /\ UNCHANGED <<env, phase, lifelog, load, loopvars>>

\* the server stops: lifespan() resumes after the yield
Shutdown ==
    /\ phase = "ready"
    /\ LET r == lifespan_shutdown(model)
       IN  /\ model' = r.model
           /\ lifelog' = lifelog \o r.log
    /\ phase' = "stopped"
    /\ UNCHANGED <<env, last, resp, reqlog, encodeCalls, handled, load, errors,
                   loopvars>>

Next ==
    \/ Startup
    \/ ServeWithoutLifespan
    \/ HealthCheck
    \/ Root
    \/ ModelInfo
    \/ GenerateEmbeddings
    \/ Shutdown

Spec == Init /\ [][Next]_vars

----------------------------------------------------------------------------
(* The event loop of the one server process of uvicorn.run(app).  Requests *)
(* become tasks; the loop runs one coroutine at a time and gets control    *)
(* back only where the coroutine awaits or returns.  The handler of POST   *)
(* /embeddings is followed statement by statement.                         *)

\* the endpoints sent requests here
LoopOps == {"health", "embeddings"}

\* the bodies sent to POST /embeddings here
LoopRequests ==
    [sentences : {<<>>, <<"", "hello world">>},
     model : {NoModelField, OtherModelName}]

\* where a handler has started and not yet returned
BodyPcs == {"started", "encoding", "converting"}

\* a variant of the handler that awaits the model call in a worker thread
SuspensionPoints_offload == {"encoding"}

\* lines 76-104: the places of the body of generate_embeddings where it
\* awaits; there is none, model.encode is called directly
SuspensionPoints == {}

\* the loop after the task t entered `pc`: freed at a suspension point
RunningAt(t, pc) == IF pc \in SuspensionPoints THEN 0 ELSE t

\* the task t may take its next step: the loop runs it, or it was suspended
\* and the loop is free to resume it
MayStep(t) ==
    \/ running = t
    \/ running = 0 /\ tasks[t].pc \in SuspensionPoints

\* a client sends a request; it waits until the loop gets to it
Arrive(t) ==
    /\ Serving
    /\ tasks[t].pc = "idle"
    /\ t > 1 => tasks[t - 1].pc # "idle"
    /\ \E op \in LoopOps :
       \E request \in (IF op = "embeddings" THEN LoopRequests ELSE {NoRequest}) :
          tasks' = [tasks EXCEPT ![t] = [IdleTask EXCEPT !.op = op,
                                                       !.request = request,
                                                       !.pc = "queued"]]
    /\ UNCHANGED <<env, model, phase, lifelog, last, resp, reqlog, encodeCalls,
                   handled, load, errors, running>>

\* the loop, free, starts the handler coroutine of a waiting request
Dispatch(t) ==
    /\ Serving
    /\ running = 0
    /\ tasks[t].pc = "queued"
    /\ tasks' = [tasks EXCEPT ![t].pc = "started"]
    /\ running' = t
    /\ UNCHANGED <<env, model, phase, lifelog, last, resp, reqlog, encodeCalls,
                   handled, load, errors>>

\* the handler of task t returns or raises: the response r is recorded and
\* the loop is free again
Finish(t, r, fault) ==
    /\ tasks' = [tasks EXCEPT ![t].pc = "done", ![t].resp = r.response]
    /\ running' = 0
    /\ resp' = r.response
    /\ reqlog' = r.log
    /\ last' = [op |-> tasks[t].op,
                sentences |-> tasks[t].request.sentences,
                model_field |-> tasks[t].request.model,
                fault |-> fault,
                observed |-> model]
    /\ model' = r.model
    /\ handled' = handled + 1
    /\ errors' = Answered(errors, r.response)

\* GET /health runs from its first line to its last
RunHealth(t) ==
    /\ running = t
    /\ tasks[t].pc = "started"
    /\ tasks[t].op = "health"
    /\ Finish(t, [response |-> health_check(model), log |-> <<>>, model |-> model],
              NoFault)
    /\ UNCHANGED <<env, phase, lifelog, encodeCalls, load>>

\* lines 76-89 of POST /embeddings: the three checks, then the call of
\* model.encode
Precheck(t) ==
    /\ running = t
    /\ tasks[t].pc = "started"
    /\ tasks[t].op = "embeddings"
    /\ IF preconditions(model, tasks[t].request) # Pass
       THEN /\ Finish(t, generate_embeddings(model, tasks[t].request, NoFault), NoFault)
            /\ UNCHANGED encodeCalls
       ELSE /\ tasks' = [tasks EXCEPT ![t].pc = "encoding"]
            /\ running' = RunningAt(t, "encoding")
            /\ encodeCalls' = encodeCalls + 1
            /\ UNCHANGED <<model, last, resp, reqlog, handled, errors>>
    /\ UNCHANGED <<env, phase, lifelog, load>>

\* lines 89-93: model.encode returns its array or raises
EncodeReturn(t) ==
    /\ MayStep(t)
    /\ tasks[t].pc = "encoding"
    /\ \E fault \in {f \in Faults : f.at \in {"none", "encode"}} :
          IF fault.at = "encode"
          THEN Finish(t, generate_embeddings(model, tasks[t].request, fault), fault)
          ELSE /\ tasks' = [tasks EXCEPT ![t].pc = "converting"]
               /\ running' = t
               /\ UNCHANGED <<model, last, resp, reqlog, handled, errors>>
    /\ UNCHANGED <<env, phase, lifelog, encodeCalls, load>>

\* lines 96-104: the result is converted and returned, or the conversion
\* raises
Convert(t) ==
    /\ running = t
    /\ tasks[t].pc = "converting"
    /\ \E fault \in {f \in Faults : f.at \in {"none", "tolist"}} :
          Finish(t, generate_embeddings(model, tasks[t].request, fault), fault)
    /\ UNCHANGED <<env, phase, lifelog, encodeCalls, load>>

NextLoop ==
    \/ Startup
    \/ ServeWithoutLifespan
    \/ \E t \in TaskIds : Arrive(t)
    \/ \E t \in TaskIds : Dispatch(t)
    \/ \E t \in TaskIds : RunHealth(t)
    \/ \E t \in TaskIds : Precheck(t)
    \/ \E t \in TaskIds : EncodeReturn(t)
    \/ \E t \in TaskIds : Convert(t)

SpecLoop == Init /\ [][NextLoop]_vars

----------------------------------------------------------------------------
(* Properties *)

\* the request handled last was sent to `op`
Was(op) == last.op = op

\* this step handles a request sent to `op`
Handles(op) == handled' = handled + 1 /\ last'.op = op

\* the embedding the model h gives the sentence s
RowOf(h, s) == [j \in 1..h.dim |-> Component(h, s, j)]

NoSentencesProvided == HTTPException(400, <<"No sentences provided">>)

TooManySentencesError == HTTPException(400, <<"Too many sentences (max 100)">>)

\* the shape the answer of a served batch has: 200, as many vectors as
\* sentences, each as long as the dimension of the model the process loaded
ShapedSuccess ==
    /\ resp.status = 200
    /\ Len(resp.body.embeddings) = Len(last.sentences)
    /\ \A i \in 1..Len(resp.body.embeddings) :
          Len(resp.body.embeddings[i]) = last.observed.dim
    /\ last.observed.dim = Handle(ModelName(env)).dim

\* C1 as stated: a POST /embeddings handled with the model loaded, with 1 to
\* 100 sentences, whose model.encode call succeeds, is answered 200 with as
\* many vectors as sentences, each as long as the loaded model's dimension.
\* It fails when model.encode returns and the conversion of its result
\* raises: the except clause answers 500.
C1_AsStated ==
    (/\ Was("embeddings")
     /\ last.observed # None
     /\ Len(last.sentences) \in 1..MaxSentences
     /\ last.fault.at # "encode")
    => ShapedSuccess

\* C1, amended: a POST /embeddings handled with the model loaded, with 1 to
\* 100 sentences, whose model.encode call and the conversion of its result
\* both succeed, is answered 200 with as many vectors as sentences, each as
\* long as the loaded model's dimension, which is the dimension of the one
\* model the process loaded.
C1_ShapeOfSuccess ==
    (/\ Was("embeddings")
     /\ last.observed # None
     /\ Len(last.sentences) \in 1..MaxSentences
     /\ last.fault = NoFault)
    => ShapedSuccess

C1_Witness ==
    /\ Was("embeddings")
    /\ last.observed # None
    /\ Len(last.sentences) = MaxSentences
    /\ last.fault = NoFault
    /\ resp.status = 200

\* C2: with the model handle absent, /health, /model/info and /embeddings
\* answer 503 "Model not loaded", whatever the body of the embeddings request
\* (empty and oversized lists included), and model.encode is never called.
C2_NotLoadedIs503 ==
    /\ (model = None => encodeCalls = 0)
    /\ ((Was("health") \/ Was("model_info") \/ Was("embeddings")) /\ last.observed = None)
       => (resp = NotLoaded /\ resp.status = 503 /\ reqlog = <<>>)

C2_Witness ==
    /\ Was("embeddings")
    /\ last.observed = None
    /\ Len(last.sentences) = 0
    /\ resp.status = 503
    /\ {503} = errors
    /\ handled = MaxRequests

\* C3: an empty sentence list sent to POST /embeddings while the model is
\* loaded is answered 400 "No sentences provided", and the request leaves the
\* number of model.encode calls as it was.
C3_EmptyIs400 ==
    [][(Handles("embeddings") /\ model # None /\ Len(last'.sentences) = 0)
       => (resp' = NoSentencesProvided /\ encodeCalls' = encodeCalls /\ reqlog' = <<>>)]_vars

C3_Witness ==
    /\ Was("embeddings")
    /\ last.observed # None
    /\ Len(last.sentences) = 0
    /\ resp = NoSentencesProvided
    /\ encodeCalls > 0

\* C4: a sentence list longer than 100 (101 among them) sent to POST
\* /embeddings while the model is loaded is answered 400 "Too many sentences
\* (max 100)" without a model.encode call; a list of exactly 100 is not
\* answered so.
C4_OversizeIs400 ==
    [][(Handles("embeddings") /\ model # None)
       => /\ Len(last'.sentences) > MaxSentences
             => (resp' = TooManySentencesError /\ encodeCalls' = encodeCalls)
          /\ Len(last'.sentences) = MaxSentences
             => (resp' # TooManySentencesError /\ encodeCalls' = encodeCalls + 1)]_vars

C4_Witness ==
    /\ Was("embeddings")
    /\ last.observed # None
    /\ Len(last.sentences) = MaxSentences + 1
    /\ resp = TooManySentencesError

\* C5: in a successful answer of POST /embeddings the vector at index i is
\* the model's embedding of the sentence at index i, for every i.
C5_OrderPreserved ==
    (Was("embeddings") /\ resp.status = 200)
    => /\ DOMAIN resp.body.embeddings = DOMAIN last.sentences
       /\ \A i \in DOMAIN last.sentences :
             resp.body.embeddings[i] = RowOf(last.observed, last.sentences[i])

C5_Witness ==
    /\ Was("embeddings")
    /\ resp.status = 200
    /\ Len(last.sentences) = MaxSentences
    /\ last.sentences[1] # last.sentences[Len(last.sentences)]
    /\ resp.body.embeddings[1] # resp.body.embeddings[Len(last.sentences)]

\* a request the loaded service serves
ValidRequest == [sentences |-> <<"hello world">>, model |-> NoModelField]

\* C6: when model.encode or the conversion of its result raises, the request
\* is answered 500 "Failed to generate embeddings: <message>"; a 200 is only
\* ever the whole batch of a call that raised nothing; and the step leaves the
\* model handle and the serving process as they were, so that a valid request
\* is served afterwards.
C6_FailureIs500 ==
    [][Handles("embeddings")
       => /\ last'.fault # NoFault
             => /\ resp' = HTTPException(500, <<"Failed to generate embeddings: ",
                                                last'.fault.msg>>)
                /\ model' = model
                /\ phase' = phase
                /\ generate_embeddings(model', ValidRequest, NoFault).response.status = 200
          /\ resp'.status = 200
             => /\ last'.fault = NoFault
                /\ Len(resp'.body.embeddings) = Len(last'.sentences)]_vars

C6_Witness ==
    /\ Was("embeddings")
    /\ last.fault.at = "tolist"
    /\ resp.status = 500
    /\ resp.detail[2] = last.fault.msg
    /\ model # None
    /\ phase = "ready"

LoadFailureLogged ==
    \E i \in DOMAIN lifelog :
        lifelog[i].level = "error" /\ lifelog[i].parts[1] = "Failed to load model: "

\* C7: when the model load fails at startup the failure is logged and the
\* startup aborts: the service is never ready, the shutdown notice is never
\* logged and no request is ever handled.
C7_FailedLoadAborts ==
    load = "failed"
    => /\ LoadFailureLogged
       /\ phase = "aborted"
       /\ model = None
       /\ handled = 0
       /\ \A i \in DOMAIN lifelog : lifelog[i] # ShutdownLine

C7_Witness ==
    /\ load = "failed"
    /\ phase = "aborted"
    /\ env = OtherModelName
    /\ LoadFailureLogged

\* C8: the model handle is assigned only by the startup routine, once, before
\* any request is handled; no handler and no shutdown step assigns it, and
\* every request that reads a loaded handle reads the current one.
C8_WrittenOnce ==
    /\ []((last.observed # None) => (last.observed = model))
    /\ [][model' # model
          => /\ model = None
             /\ phase = "imported"
             /\ phase' = "ready"
             /\ handled = 0
             /\ model' = Handle(ModelName(env))]_vars

C8_Witness ==
    /\ phase = "stopped"
    /\ model = Handle(ModelName(env))
    /\ Was("embeddings")
    /\ last.observed = model
    /\ handled = MaxRequests

\* C9: once the model is loaded, every GET /health is answered 200 with
\* status "healthy" and model_loaded true, whatever requests came before it,
\* those answered 400 or 500 included.
C9_HealthyOnceLoaded ==
    [][(Handles("health") /\ load = "ok")
       => /\ resp'.status = 200
          /\ resp'.body = [status |-> "healthy", model_loaded |-> TRUE]]_vars

C9_Witness ==
    /\ Was("health")
    /\ load = "ok"
    /\ resp.status = 200
    /\ errors = {400, 500}

\* C10: GET / is answered 200 with status "running" whether the model handle
\* is absent or loaded; it is never answered 503.
C10_RootAlwaysRuns ==
    Was("root")
    => /\ resp.status = 200
       /\ resp.body.status = "running"
       /\ resp.body.model = ModelName(env)

C10_Witness ==
    /\ Was("root")
    /\ model = None
    /\ phase = "unmanaged"
    /\ resp.status = 200

\* C11: in the single server process at most one model.encode call is in
\* flight, and while one is, the loop is running that handler and no other
\* request's handler (that of /health included) has started and not yet
\* returned: the others wait until the call and its handler are over.
C11_Serialized ==
    \A t \in TaskIds :
        tasks[t].pc = "encoding"
        => /\ running = t
           /\ \A u \in TaskIds \ {t} : tasks[u].pc \notin BodyPcs

C11_Witness ==
    \E t, u, v \in TaskIds :
        /\ tasks[t].pc = "encoding"
        /\ tasks[u].op = "health" /\ tasks[u].pc = "queued"
        /\ tasks[v].op = "embeddings" /\ tasks[v].pc = "queued"
        /\ Len(tasks[v].request.sentences) > 0

\* the task t is a POST /embeddings answered 200
Succeeded(t) ==
    /\ tasks[t].op = "embeddings"
    /\ tasks[t].pc = "done"
    /\ tasks[t].resp.status = 200

\* C12: with one model loaded, two POST /embeddings requests with the same
\* sentences that are both answered 200 get the same embeddings, whatever
\* the `model` field of either and whatever was served before or between
\* them; the global handle stays the one the startup loaded.
C12_SameSentencesSameEmbeddings ==
    /\ model # None => model = Handle(ModelName(env))
    /\ \A t, u \in TaskIds :
          (Succeeded(t) /\ Succeeded(u)
           /\ tasks[t].request.sentences = tasks[u].request.sentences)
          => tasks[t].resp.body.embeddings = tasks[u].resp.body.embeddings

C12_Witness ==
    /\ env = Unset
    /\ Succeeded(1)
    /\ tasks[2].pc = "done" /\ tasks[2].resp.status # 200
    /\ Succeeded(3)
    /\ tasks[1].request.sentences = tasks[3].request.sentences
    /\ tasks[1].request.model # tasks[3].request.model
    /\ Len(tasks[1].request.sentences) = 2

====
